---------------------------- MODULE Spec2Model ----------------------------
(***************************************************************************)
(* FRUITPy (FRUIT.py): the source scanner (test_module), the suite model   *)
(* and driver synthesis (test_suite.get_driver_lines), the build/run       *)
(* orchestration (write, build, run, build_run) and the result parser      *)
(* (parse_output_file and its helpers).                                    *)
(*                                                                         *)
(* Python strings are sequences of one-character strings, so that lower(), *)
(* find(), strip(), split() and int() are computed, not assumed.  A line   *)
(* returned by readline() carries its trailing "\n"; "" is end-of-input.   *)
(***************************************************************************)
EXTENDS Integers, Sequences, FiniteSets, TLC

VARIABLES
    \* ---- test_module.parse (one source file being scanned)
    source,            \* the lines of the file named by test_filename
    f_pos,             \* number of lines the handle f has consumed
    f_open,            \* "unopened" | "open" | "closed": the handle f
    pc,                \* control point of the operation in progress
    eofReads,          \* readline() calls that returned "" (end-of-input)
    test_module_name,  \* test_module.test_module_name
    setup,             \* test_module.setup
    teardown,          \* test_module.teardown
    subroutines,       \* test_module.subroutines
    subname,           \* parse_subroutine's local subname while it looks ahead
    error,             \* exception that ended the operation, or "none"
    \* ---- test_suite
    test_modules,      \* test_suite.test_modules
    platform,          \* sys.platform / os.name of the host
    fs,                \* paths that are regular files
    driver,            \* test_suite.driver
    exe,               \* test_suite.exe
    written,           \* text that write() stored in the driver file
    result,            \* what the last build_run call returned: "none" (no
                       \* call yet), "pending", "True", "False" or "raised"
    nwrite, nbuild, nrun, \* write/build/run steps taken by the current call
    exeBuilt,          \* the current call's build command created exe
    stale,             \* exe was a file when the current call's build began
    outputfile,        \* test_suite.outputfile (the path), NoStr before a run
    output_lines,      \* test_suite.output_lines
    success,           \* test_suite.success
    messages,          \* test_suite.messages
    asserts,           \* test_suite.asserts  (success, total)
    cases              \* test_suite.cases    (success, total)

scanVars == <<source, f_pos, f_open, eofReads, test_module_name, setup,
              teardown, subroutines, subname>>
buildVars == <<platform, fs, driver, exe, written, result, nwrite, nbuild,
               nrun, exeBuilt, stale>>
resVars == <<outputfile, output_lines, success, messages, asserts, cases>>
vars == <<scanVars, buildVars, resVars, pc, error, test_modules>>

\* ------------------------------------------------------------------ bounds
MaxLines == 3        \* lines in a scanned source file
MaxEofReads == 2     \* readline() calls at end-of-input that are followed
MaxModules == 2      \* modules in a suite
MaxCases == 1        \* test cases in one module
MaxOut == 3          \* lines in an output file
MaxRerunOut == 2     \* lines in the output of a repeated run

\* ------------------------------------------------- Python string primitives
\* the absent string: an attribute not yet assigned, or the item whose
\* lookup raised (a token or a path is never empty)
NoStr == <<>>
Whitespace == {" ", "\n", "\t"}
UpperCase == <<"A","B","C","D","E","F","G","H","I","J","K","L","M",
               "N","O","P","Q","R","S","T","U","V","W","X","Y","Z">>
LowerCase == <<"a","b","c","d","e","f","g","h","i","j","k","l","m",
               "n","o","p","q","r","s","t","u","v","w","x","y","z">>

SetMin(S) == CHOOSE x \in S : \A y \in S : x <= y
SetMax(S) == CHOOSE x \in S : \A y \in S : x >= y

\* str.lower()
LowerChar(c) ==
    IF \E i \in 1..26 : UpperCase[i] = c
    THEN LowerCase[CHOOSE i \in 1..26 : UpperCase[i] = c]
    ELSE c
Lower(s) == [i \in 1..Len(s) |-> LowerChar(s[i])]

\* str.find(sub): 0-based index of the first occurrence, -1 if there is none
Find(s, sub) ==
    LET hits == {i \in 0..(Len(s) - Len(sub)) :
                    SubSeq(s, i + 1, i + Len(sub)) = sub}
    IN IF hits = {} THEN -1 ELSE SetMin(hits)

\* sub in s
Contains(s, sub) == Find(s, sub) >= 0

\* s[i:]  (a negative i counts from the end, as Python's slices do)
SliceFrom(s, i) ==
    IF i >= 0 THEN SubSeq(s, i + 1, Len(s))
    ELSE SubSeq(s, (IF Len(s) + i > 0 THEN Len(s) + i ELSE 0) + 1, Len(s))

\* s[:i]  (a negative i counts from the end)
SliceTo(s, i) ==
    IF i >= 0 THEN SubSeq(s, 1, i)
    ELSE SubSeq(s, 1, Len(s) + i)

\* str.strip()
Strip(s) ==
    LET ink == {i \in 1..Len(s) : s[i] \notin Whitespace}
    IN IF ink = {} THEN <<>> ELSE SubSeq(s, SetMin(ink), SetMax(ink))

\* str.split(): the maximal runs of non-whitespace, in order
RECURSIVE Split(_)
Split(s) ==
    LET ink == {i \in 1..Len(s) : s[i] \notin Whitespace}
    IN IF ink = {} THEN <<>>
       ELSE LET b == SetMin(ink)
                ws == {i \in b..Len(s) : s[i] \in Whitespace}
                e == IF ws = {} THEN Len(s) ELSE SetMin(ws) - 1
            IN <<SubSeq(s, b, e)>> \o Split(SubSeq(s, e + 1, Len(s)))

\* str.startswith(prefix)
StartsWith(s, prefix) ==
    Len(s) >= Len(prefix) /\ SubSeq(s, 1, Len(prefix)) = prefix

\* all sequences over S of length at most n
SeqsUpTo(S, n) == UNION {[1..k -> S] : k \in 0..n}

\* ---------------------------------------------------------- source scanner
\* The lines a scanned file is drawn from.
SourceLines == {
    <<"m","o","d","u","l","e"," ","m","\n">>,
    <<"M","O","D","U","L","E"," ","m","\n">>,
    <<"m","o","d","u","l","e","\n">>,
    <<"s","u","b","r","o","u","t","i","n","e"," ","t","e","s","t","_","a","\n">>,
    <<" "," ","S","U","B","R","O","U","T","I","N","E"," ","T","e","s","t","_","B","(","x",")","\n">>,
    <<"e","n","d"," ","s","u","b","r","o","u","t","i","n","e"," ","t","e","s","t","_","a","\n">>,
    <<"!"," ","s","u","b","r","o","u","t","i","n","e"," ","t","e","s","t","_","c","\n">>,
    <<"s","u","b","r","o","u","t","i","n","e"," ","s","e","t","u","p","\n">>,
    <<"s","u","b","r","o","u","t","i","n","e"," ","T","e","a","r","D","o","w","n","\n">>,
    <<"s","u","b","r","o","u","t","i","n","e"," ","h","e","l","p","e","r","\n">>,
    <<"s","u","b","r","o","u","t","i","n","e","\n">>,
    <<"\n">>,
    <<" "," ","!"," ","d","\n">>,
    <<"x"," ","="," ","1","\n">> }

FileName(i) == <<LowerCase[i]>> \o <<".","f","9","0">>

\* f.readline(): the next line, or "" at end-of-input
Readline == IF f_pos < Len(source) THEN source[f_pos + 1] ELSE <<>>

\* the handle after one readline()
Consume ==
    /\ f_pos' = IF f_pos < Len(source) THEN f_pos + 1 ELSE f_pos
    /\ eofReads' = IF f_pos < Len(source) THEN eofReads ELSE eofReads + 1

\* test_module.parse_test_module_name, lines 56-57: the name on the line the
\* loop stopped at; NoStr stands for the IndexError of split()[1]
module_name_of(line) ==
    LET imod == Find(line, <<"m","o","d","u","l","e">>)
        toks == Split(Strip(SliceFrom(line, imod)))
    IN IF Len(toks) >= 2 THEN toks[2] ELSE NoStr

\* test_module.subroutine_type
subroutine_type(name) ==
    LET lowername == Lower(name)
    IN IF lowername = <<"s","e","t","u","p">> THEN "setup"
       ELSE IF lowername = <<"t","e","a","r","d","o","w","n">> THEN "teardown"
       ELSE IF StartsWith(lowername, <<"t","e","s","t","_">>) THEN "test"
       ELSE "None"

\* test_module.parse_subroutine, lines 71-73: is the line taken as a declaration
subroutine_accepted(line) ==
    LET isub == Find(Lower(line), <<"s","u","b","r","o","u","t","i","n","e">>)
        pre == SliceTo(line, isub)
    IN ~Contains(pre, <<"!">>) /\ ~Contains(Lower(pre), <<"e","n","d">>)

\* test_module.parse_subroutine, line 74: split()[1] exists (no IndexError)
subroutine_has_name(line) ==
    LET isub == Find(Lower(line), <<"s","u","b","r","o","u","t","i","n","e">>)
    IN Len(Split(Strip(SliceFrom(line, isub)))) >= 2

\* test_module.parse_subroutine, lines 74-76: the declared name
subroutine_name(line) ==
    LET isub == Find(Lower(line), <<"s","u","b","r","o","u","t","i","n","e">>)
        toks == Split(Strip(SliceFrom(line, isub)))
        bracpos == IF Len(toks) >= 2 THEN Find(toks[2], <<"(">>) ELSE -1
    IN IF Len(toks) < 2 THEN NoStr
       ELSE IF bracpos >= 0 THEN SliceTo(toks[2], bracpos)
       ELSE toks[2]

\* test_module.parse_subroutine, lines 81-83
description_of(line, name) ==
    LET comment_pos == Find(line, <<"!">>)
    IN IF comment_pos >= 0 THEN Strip(SliceFrom(line, comment_pos + 1))
       ELSE name

\* test_suite.parse -> test_module.__init__ -> parse, line 47: f = open(...)
Open ==
    /\ pc = "open"
    /\ f_open' = "open"
    /\ pc' = "name"
    /\ UNCHANGED <<source, f_pos, eofReads, test_module_name, setup, teardown,
                   subroutines, subname, error, test_modules, buildVars,
                   resVars>>

\* parse_test_module_name: one readline() and the loop test that follows it;
\* on the line that contains 'module', lines 56-57 and the first statements
\* of parse_subroutines (lines 92-93)
ReadModuleLine ==
    /\ pc = "name"
    /\ eofReads < MaxEofReads
    /\ LET line == Readline
       IN /\ Consume
          /\ IF ~Contains(Lower(line), <<"m","o","d","u","l","e">>)
             THEN /\ pc' = "name"
                  /\ UNCHANGED <<test_module_name, setup, teardown,
                                 subroutines, error>>
             ELSE IF module_name_of(line) = NoStr
             THEN /\ pc' = "raised"
                  /\ error' = "IndexError"
                  /\ UNCHANGED <<test_module_name, setup, teardown,
                                 subroutines>>
             ELSE /\ test_module_name' = module_name_of(line)
                  /\ setup' = FALSE
                  /\ teardown' = FALSE
                  /\ subroutines' = <<>>
                  /\ pc' = "subs"
                  /\ UNCHANGED error
    /\ UNCHANGED <<source, f_open, subname, test_modules, buildVars, resVars>>

\* parse_subroutines: one readline() of its loop and the body run on that
\* line; at end-of-input the loop ends, parse closes f (line 50) and
\* test_suite.parse appends the module (line 149)
ReadSubroutineLine ==
    /\ pc = "subs"
    /\ LET line == Readline
           name == subroutine_name(line)
           decl == /\ Contains(Lower(line), <<"s","u","b","r","o","u","t","i","n","e">>)
                   /\ subroutine_accepted(line)
       IN /\ Consume
          /\ IF line = <<>>
             THEN /\ f_open' = "closed"
                  /\ pc' = "done"
                  /\ test_modules' = Append(test_modules,
                        [test_filename |-> FileName(1),
                         test_module_name |-> test_module_name,
                         setup |-> setup,
                         teardown |-> teardown,
                         subroutines |-> subroutines])
                  /\ UNCHANGED <<setup, teardown, subname, error>>
             ELSE IF ~decl
             THEN UNCHANGED <<f_open, pc, test_modules, setup, teardown,
                              subname, error>>
             ELSE IF ~subroutine_has_name(line)
             THEN /\ pc' = "raised"
                  /\ error' = "IndexError"
                  /\ UNCHANGED <<f_open, test_modules, setup, teardown,
                                 subname>>
             ELSE IF subroutine_type(name) = "test"
             THEN /\ pc' = "desc"
                  /\ subname' = name
                  /\ UNCHANGED <<f_open, test_modules, setup, teardown, error>>
             ELSE /\ setup' = (setup \/ subroutine_type(name) = "setup")
                  /\ teardown' = (teardown \/ subroutine_type(name) = "teardown")
                  /\ UNCHANGED <<f_open, pc, test_modules, subname, error>>
    /\ UNCHANGED <<source, test_module_name, subroutines, buildVars, resVars>>

\* parse_subroutine, lines 79-85: one readline() of the look-ahead for the
\* description and, on a line that is not blank, the rest of the branch
ReadDescriptionLine ==
    /\ pc = "desc"
    /\ eofReads < MaxEofReads
    /\ LET line == Readline
       IN /\ Consume
          /\ IF Strip(line) = <<>>
             THEN UNCHANGED <<pc, subroutines, subname>>
             ELSE /\ subroutines' = Append(subroutines,
                        [name |-> subname,
                         description |-> description_of(line, subname)])
                  /\ subname' = NoStr
                  /\ pc' = "subs"
    /\ UNCHANGED <<source, f_open, test_module_name, setup, teardown, error,
                   test_modules, buildVars, resVars>>

\* ------------------------------------------------------------ result parser
Digits == <<"0","1","2","3","4","5","6","7","8","9">>

\* The lines an output file is drawn from.
OutLines == {
    <<"S","u","c","c","e","s","s","f","u","l"," ","a","s","s","e","r","t","s"," ","/"," ","t","o","t","a","l"," ","a","s","s","e","r","t","s"," ",":"," ","1"," ","/"," ","2","\n">>,
    <<"S","u","c","c","e","s","s","f","u","l"," ","a","s","s","e","r","t","s"," ","/"," ","t","o","t","a","l"," ","a","s","s","e","r","t","s"," ",":"," ","0"," ","/"," ","1","\n">>,
    <<"S","u","c","c","e","s","s","f","u","l"," ","c","a","s","e","s"," ","/"," ","t","o","t","a","l"," ","c","a","s","e","s"," ",":"," ","1"," ","/"," ","1","\n">>,
    <<"1"," ","/"," ","2"," ","/","\n">>,
    <<"x"," ","S","U","C","C","E","S","S","F","U","L","!"," ","y","\n">>,
    <<"F","a","i","l","e","d"," ","a","s","s","e","r","t","i","o","n"," ","m","e","s","s","a","g","e","s",":","\n">>,
    <<" "," ","m","s","g","A","\n">>,
    <<"e","n","d"," ","o","f"," ","f","a","i","l","e","d"," ","a","s","s","e","r","t","i","o","n"," ","m","e","s","s","a","g","e","s",".","\n">> }

Outputs == SeqsUpTo(OutLines, MaxOut)

\* The outputs of a run that is repeated on a built suite.
RerunOutputs == SeqsUpTo(OutLines, MaxRerunOut)

\* The outputs a run inside build_run is drawn from.
SampleOutputs == {
    <<>>,
    << <<"x"," ","S","U","C","C","E","S","S","F","U","L","!"," ","y","\n">>,
       <<"S","u","c","c","e","s","s","f","u","l"," ","a","s","s","e","r","t","s"," ","/"," ","t","o","t","a","l"," ","a","s","s","e","r","t","s"," ",":"," ","1"," ","/"," ","2","\n">>,
       <<"S","u","c","c","e","s","s","f","u","l"," ","c","a","s","e","s"," ","/"," ","t","o","t","a","l"," ","c","a","s","e","s"," ",":"," ","1"," ","/"," ","1","\n">> >>,
    << <<"S","u","c","c","e","s","s","f","u","l"," ","a","s","s","e","r","t","s"," ","/"," ","t","o","t","a","l"," ","a","s","s","e","r","t","s"," ",":"," ","0"," ","/"," ","1","\n">> >> }

\* int(tok) for a token of decimal digits; any other token is a ValueError
IsDigits(tok) ==
    tok # <<>> /\ \A i \in 1..Len(tok) : \E d \in 1..10 : Digits[d] = tok[i]
RECURSIVE IntOf(_)
IntOf(tok) ==
    IF tok = <<>> THEN 0
    ELSE 10 * IntOf(SubSeq(tok, 1, Len(tok) - 1))
         + (CHOOSE d \in 1..10 : Digits[d] = tok[Len(tok)]) - 1

\* items[k] with Python's indexing (k < 0 counts from the end); NoStr stands
\* for IndexError
PyItem(items, k) ==
    IF k >= 0 THEN (IF k < Len(items) THEN items[k + 1] ELSE NoStr)
    ELSE (IF -k <= Len(items) THEN items[Len(items) + k + 1] ELSE NoStr)

\* items[::-1].index(x): 0-based position of x in the reversed list
ReversedIndex(items, x) ==
    Len(items) - SetMax({k \in 1..Len(items) : items[k] = x})

\* test_suite.parse_summary_line: [error, pair]
parse_summary_line(line) ==
    LET items == Split(line)
    IN IF ~\E k \in 1..Len(items) : items[k] = <<"/">>
       THEN [error |-> "ValueError", pair |-> <<0, 0>>]
       ELSE LET slashpos == -(ReversedIndex(items, <<"/">>) + 1)
                before == PyItem(items, slashpos - 1)
                after == PyItem(items, slashpos + 1)
            IN IF before = NoStr THEN [error |-> "IndexError", pair |-> <<0, 0>>]
               ELSE IF ~IsDigits(before)
               THEN [error |-> "ValueError", pair |-> <<0, 0>>]
               ELSE IF after = NoStr
               THEN [error |-> "IndexError", pair |-> <<0, 0>>]
               ELSE IF ~IsDigits(after)
               THEN [error |-> "ValueError", pair |-> <<0, 0>>]
               ELSE [error |-> "none", pair |-> <<IntOf(before), IntOf(after)>>]

\* test_suite.get_success
get_success(lines) ==
    \E i \in 1..Len(lines) : Contains(lines[i], <<"S","U","C","C","E","S","S","F","U","L","!">>)

\* test_suite.get_messages
get_messages(lines, succ) ==
    LET heads == {i \in 1..Len(lines) :
                     Contains(lines[i], <<"F","a","i","l","e","d"," ","a","s","s","e","r","t","i","o","n"," ","m","e","s","s","a","g","e","s",":">>)}
    IN IF succ \/ heads = {} THEN <<>>
       ELSE LET i == SetMin(heads)
                ends == {j \in (i + 1)..Len(lines) :
                   Contains(lines[j], <<"e","n","d"," ","o","f"," ","f","a","i","l","e","d"," ","a","s","s","e","r","t","i","o","n"," ","m","e","s","s","a","g","e","s",".">>)}
                stop == IF ends = {} THEN Len(lines) + 1 ELSE SetMin(ends)
            IN [k \in 1..(stop - i - 1) |-> Strip(lines[i + k])]

\* the test of line 279
is_asserts_header(line) ==
    Contains(line, <<"S","u","c","c","e","s","s","f","u","l"," ","a","s","s","e","r","t","s"," ","/"," ","t","o","t","a","l"," ","a","s","s","e","r","t","s">>)

\* the for loop of get_statistics, abandoned after the first header
next_scan_index_break(lines, i) == Len(lines) + 1

\* the for loop of get_statistics (line 278): the index it goes on with
\* after the body has handled a header at index i (there is no break)
next_scan_index(lines, i) == i + 1

\* test_suite.get_statistics, the loop from index i on; acc is
\* [asserts, cases, error], the counters so far and the exception raised
RECURSIVE statistics_from(_, _, _)
statistics_from(lines, i, acc) ==
    IF i > Len(lines) THEN acc
    ELSE IF ~is_asserts_header(lines[i]) THEN statistics_from(lines, i + 1, acc)
    ELSE LET a == parse_summary_line(lines[i])
         IN IF a.error # "none" THEN [acc EXCEPT !.error = a.error]
            ELSE IF i + 1 > Len(lines)
            THEN [acc EXCEPT !.asserts = a.pair, !.error = "IndexError"]
            ELSE LET c == parse_summary_line(lines[i + 1])
                 IN IF c.error # "none"
                    THEN [acc EXCEPT !.asserts = a.pair, !.error = c.error]
                    ELSE statistics_from(lines, next_scan_index(lines, i),
                            [acc EXCEPT !.asserts = a.pair, !.cases = c.pair])

\* test_suite.get_statistics
get_statistics(lines, a0, c0) ==
    statistics_from(lines, 1, [asserts |-> a0, cases |-> c0, error |-> "none"])

\* test_suite.get_output_lines, given whether the output file is a file and
\* what it holds
get_output_lines(isfile, content) == IF isfile THEN content ELSE <<>>

\* test_suite.parse_output_file on the lines read
ParseOutputFile(lines) ==
    LET st == get_statistics(lines, asserts, cases)
    IN /\ output_lines' = lines
       /\ success' = get_success(lines)
       /\ messages' = get_messages(lines, get_success(lines))
       /\ asserts' = st.asserts
       /\ cases' = st.cases
       /\ error' = st.error

\* ------------------------------------------------- suite model and driver
\* test_suite.get_num_test_modules
get_num_test_modules(mods) == Len(mods)

\* test_suite.get_setup
get_setup(mods) == \E i \in 1..Len(mods) : mods[i].setup

\* test_suite.get_teardown
get_teardown(mods) == \E i \in 1..Len(mods) : mods[i].teardown

\* the per-file comment, emitted for every suite that has a module
module_comment_always(mods, mod) ==
    IF get_num_test_modules(mods) >= 1
    THEN << <<" "," ","!"," ">> \o Strip(mod.test_filename) \o <<":">> >>
    ELSE <<>>

\* get_driver_lines, lines 183-184
module_comment(mods, mod) ==
    IF get_num_test_modules(mods) > 1
    THEN << <<" "," ","!"," ">> \o Strip(mod.test_filename) \o <<":">> >>
    ELSE <<>>

\* get_driver_lines, lines 186-187
run_test_case_line(sub) ==
    <<" "," ","c","a","l","l"," ","r","u","n","_","t","e","s","t","_","c","a","s","e","(">> \o sub.name \o <<",","\"">> \o sub.description \o <<"\"",")">>

\* get_driver_lines, lines 182-188, for the modules from index i on
RECURSIVE module_blocks(_, _)
module_blocks(mods, i) ==
    IF i > Len(mods) THEN <<>>
    ELSE module_comment(mods, mods[i])
         \o [j \in 1..Len(mods[i].subroutines) |->
                run_test_case_line(mods[i].subroutines[j])]
         \o << <<>> >>
         \o module_blocks(mods, i + 1)

\* test_suite.get_driver_lines
get_driver_lines(mods) ==
    << <<"p","r","o","g","r","a","m"," ","t","e","s","t","s">>, <<>>, <<" "," ","!"," ","D","r","i","v","e","r"," ","p","r","o","g","r","a","m"," ","f","o","r"," ","F","R","U","I","T"," ","u","n","i","t"," ","t","e","s","t","s"," ","i","n",":">> >>
    \o [i \in 1..Len(mods) |-> <<" "," ","!"," ">> \o Strip(mods[i].test_filename)]
    \o << <<>>, <<" "," ","!"," ","G","e","n","e","r","a","t","e","d"," ","b","y"," ","F","R","U","I","T","P","y",".">>, <<>>, <<" "," ","u","s","e"," ","f","r","u","i","t">> >>
    \o [i \in 1..Len(mods) |-> <<" "," ","u","s","e"," ">> \o mods[i].test_module_name]
    \o << <<>>, <<" "," ","c","a","l","l"," ","i","n","i","t","_","f","r","u","i","t">> >>
    \o (IF get_setup(mods) THEN << <<" "," ","c","a","l","l"," ","s","e","t","u","p">> >> ELSE <<>>)
    \o << <<>> >>
    \o module_blocks(mods, 1)
    \o (IF get_teardown(mods) THEN << <<" "," ","c","a","l","l"," ","t","e","a","r","d","o","w","n">> >> ELSE <<>>)
    \o << <<" "," ","c","a","l","l"," ","f","r","u","i","t","_","s","u","m","m","a","r","y">>, <<" "," ","c","a","l","l"," ","f","r","u","i","t","_","f","i","n","a","l","i","z","e">>, <<>>,
          <<"e","n","d"," ","p","r","o","g","r","a","m"," ","t","e","s","t","s">> >>

\* '\n'.join(lines)
RECURSIVE Join(_)
Join(lines) ==
    IF lines = <<>> THEN <<>>
    ELSE IF Len(lines) = 1 THEN lines[1]
    ELSE lines[1] \o <<"\n">> \o Join(Tail(lines))

\* ------------------------------------------------------- build and run
Drivers == { <<"t",".","f","9","0">>, <<"t">> }
Platforms == {"linux", "win32"}

\* os.path.splitext on a path without directories: <<root, ext>>
Splitext(p) ==
    LET lead == IF \E i \in 1..Len(p) : p[i] # "."
                THEN SetMin({i \in 1..Len(p) : p[i] # "."}) ELSE Len(p) + 1
        dots == {i \in (lead + 1)..Len(p) : p[i] = "."}
    IN IF dots = {} THEN <<p, <<>>>>
       ELSE <<SubSeq(p, 1, SetMax(dots) - 1), SubSeq(p, SetMax(dots), Len(p))>>

\* build, lines 214-215
exe_path(drv, plat) ==
    IF plat = "win32" THEN Splitext(drv)[1] \o <<".","e","x","e">> ELSE Splitext(drv)[1]

\* run, lines 227-228
output_path(drv) == Splitext(drv)[1] \o <<".","o","u","t">>

\* build without the removal of line 216
remove_stale_skipped(files, path) == files

\* build, line 216: if isfile(self.exe): remove(self.exe)
remove_stale(files, path) == IF path \in files THEN files \ {path} ELSE files

\* the guard of build_run with >= for >
has_test_modules_nonneg(mods) == get_num_test_modules(mods) >= 0

\* build_run, line 302
has_test_modules(mods) == get_num_test_modules(mods) > 0

\* build_run up to and including write(driver) (lines 302-303, 202-205)
BuildRunCall ==
    /\ pc = "idle"
    /\ \E d \in Drivers :
         IF has_test_modules(test_modules)
         THEN /\ driver' = d
              /\ fs' = fs \cup {d}
              /\ written' = Join(get_driver_lines(test_modules))
              /\ nwrite' = 1
              /\ result' = "pending"
              /\ pc' = "build"
         ELSE /\ result' = "False"
              /\ nwrite' = 0
              /\ pc' = "idle"
              /\ UNCHANGED <<driver, fs, written>>
    /\ nbuild' = 0
    /\ nrun' = 0
    /\ exeBuilt' = FALSE
    /\ stale' = FALSE
    /\ error' = "none"
    /\ UNCHANGED <<scanVars, resVars, test_modules, platform, exe>>

\* write(driver) called on its own
Write ==
    /\ pc = "idle"
    /\ \E d \in Drivers :
         /\ driver' = d
         /\ fs' = fs \cup {d}
         /\ written' = Join(get_driver_lines(test_modules))
    /\ nwrite' = nwrite + 1
    /\ pc' = "written"
    /\ UNCHANGED <<scanVars, resVars, test_modules, platform, exe, result,
                   nbuild, nrun, exeBuilt, stale, error>>

\* build(build_command) and the test of line 304; made is whether the
\* external build command creates the executable
Build ==
    /\ pc = "build"
    /\ \E made \in BOOLEAN :
         LET e == exe_path(driver, platform)
             cleared == remove_stale(fs, e)
             after == IF made THEN cleared \cup {e} ELSE cleared
         IN /\ exe' = e
            /\ stale' = (e \in fs)
            /\ fs' = after
            /\ exeBuilt' = made
            /\ IF e \in after
               THEN pc' = "run" /\ UNCHANGED result
               ELSE pc' = "idle" /\ result' = "False"
    /\ nbuild' = nbuild + 1
    /\ UNCHANGED <<scanVars, resVars, test_modules, platform, driver, written,
                   nwrite, nrun, error>>

\* run(): the shell creates the output file, the executable fills it with
\* out, parse_output_file reads it back
RunEffect(out) ==
    /\ outputfile' = output_path(driver)
    /\ fs' = fs \cup {output_path(driver)}
    /\ ParseOutputFile(get_output_lines(TRUE, out))

\* run() as called by build_run (line 304), and build_run's return
Run ==
    /\ pc = "run"
    /\ \E out \in SampleOutputs : RunEffect(out)
    /\ nrun' = nrun + 1
    /\ result' = IF error' # "none" THEN "raised"
                 ELSE IF success' THEN "True" ELSE "False"
    /\ pc' = "idle"
    /\ UNCHANGED <<scanVars, test_modules, platform, driver, exe, written,
                   nwrite, nbuild, exeBuilt, stale>>

\* run() called on a built suite
RunDirect ==
    /\ pc = "built"
    /\ \E out \in RerunOutputs : RunEffect(out)
    /\ UNCHANGED <<scanVars, test_modules, platform, driver, exe, written,
                   result, nwrite, nbuild, nrun, exeBuilt, stale, pc>>

\* the output file is deleted between two calls
RemoveOutputFile ==
    /\ pc = "built"
    /\ outputfile \in fs
    /\ fs' = fs \ {outputfile}
    /\ UNCHANGED <<scanVars, resVars, test_modules, platform, driver, exe,
                   written, result, nwrite, nbuild, nrun, exeBuilt, stale, pc,
                   error>>

\* parse_output_file() called again; a file that is still there holds what
\* the last run wrote
ParseAgain ==
    /\ pc = "built"
    /\ outputfile # NoStr
    /\ ParseOutputFile(get_output_lines(outputfile \in fs, output_lines))
    /\ UNCHANGED <<scanVars, test_modules, buildVars, outputfile, pc>>

\* get_statistics() on freshly constructed counters
GetStatistics ==
    /\ pc = "stats"
    /\ LET st == get_statistics(output_lines, asserts, cases)
       IN /\ asserts' = st.asserts
          /\ cases' = st.cases
          /\ error' = st.error
    /\ pc' = "stats_done"
    /\ UNCHANGED <<scanVars, test_modules, buildVars, outputfile,
                   output_lines, success, messages>>

\* ------------------------------------------------------------ specifications
\* a test case as the scanner stores it: the j-th of module i
CaseOf(i, j) ==
    [name |-> <<"t","e","s","t","_">> \o <<LowerCase[i], Digits[j + 1]>>,
     description |-> IF j = 1 THEN <<"d">>
                     ELSE <<"t","e","s","t","_">> \o <<LowerCase[i], Digits[j + 1]>>]

\* the modules test_suite.parse can have stored for the i-th file
ModulesAt(i) ==
    {[test_filename |-> FileName(i),
      test_module_name |-> <<"m", LowerCase[i]>>,
      setup |-> s, teardown |-> t,
      subroutines |-> [j \in 1..n |-> CaseOf(i, j)]] :
        s \in BOOLEAN, t \in BOOLEAN, n \in 0..MaxCases}

Suites ==
    UNION {{ms \in [1..k -> UNION {ModulesAt(i) : i \in 1..k}] :
               \A i \in 1..k : ms[i] \in ModulesAt(i)} : k \in 0..MaxModules}

\* the suites build_run is followed on: the hooks of a module only show in
\* the driver text, so each module has both or none
PipelineSuites ==
    {ms \in Suites : \A i \in 1..Len(ms) : ms[i].setup = ms[i].teardown}

ScanIdle ==
    /\ source = <<>> /\ f_pos = 0 /\ f_open = "unopened" /\ eofReads = 0
    /\ test_module_name = NoStr /\ setup = FALSE /\ teardown = FALSE
    /\ subroutines = <<>> /\ subname = NoStr

BuildIdle ==
    /\ driver = NoStr /\ exe = NoStr /\ written = NoStr /\ result = "none"
    /\ nwrite = 0 /\ nbuild = 0 /\ nrun = 0 /\ exeBuilt = FALSE
    /\ stale = FALSE

ResultsIdle ==
    /\ outputfile = NoStr /\ output_lines = <<>> /\ success = FALSE
    /\ messages = <<>> /\ asserts = <<0, 0>> /\ cases = <<0, 0>>

\* test_suite(test_filename): one file about to be parsed
InitScan ==
    /\ source \in SeqsUpTo(SourceLines, MaxLines)
    /\ f_pos = 0 /\ f_open = "unopened" /\ eofReads = 0
    /\ test_module_name = NoStr /\ setup = FALSE /\ teardown = FALSE
    /\ subroutines = <<>> /\ subname = NoStr
    /\ pc = "open" /\ error = "none" /\ test_modules = <<>>
    /\ platform = "linux" /\ fs = {}
    /\ BuildIdle /\ ResultsIdle

NextScan == Open \/ ReadModuleLine \/ ReadSubroutineLine \/ ReadDescriptionLine

SpecScan == InitScan /\ [][NextScan]_vars

\* a constructed suite, before any build_run
Init ==
    /\ ScanIdle
    /\ test_modules \in PipelineSuites
    /\ platform \in Platforms
    /\ fs = {}
    /\ BuildIdle /\ ResultsIdle
    /\ pc = "idle" /\ error = "none"

Next == BuildRunCall \/ Build \/ Run

Spec == Init /\ [][Next]_vars

\* write(driver) on a constructed suite
InitDriver ==
    /\ ScanIdle
    /\ test_modules \in Suites
    /\ platform = "linux" /\ fs = {}
    /\ BuildIdle /\ ResultsIdle
    /\ pc = "idle" /\ error = "none"

NextDriver == Write

SpecDriver == InitDriver /\ [][NextDriver]_vars

\* a suite of one module whose driver has been written and built
InitResults ==
    /\ ScanIdle
    /\ test_modules \in {ms \in Suites : Len(ms) = 1 /\ Len(ms[1].subroutines) = 1
                                         /\ ~ms[1].setup /\ ~ms[1].teardown}
    /\ platform = "linux"
    /\ driver = <<"t",".","f","9","0">>
    /\ exe = exe_path(<<"t",".","f","9","0">>, "linux")
    /\ fs = {<<"t",".","f","9","0">>, exe_path(<<"t",".","f","9","0">>, "linux")}
    /\ written = Join(get_driver_lines(test_modules))
    /\ result = "none" /\ nwrite = 0 /\ nbuild = 0 /\ nrun = 0
    /\ exeBuilt = FALSE /\ stale = FALSE
    /\ ResultsIdle
    /\ pc = "built" /\ error = "none"

NextResults == RunDirect \/ RemoveOutputFile \/ ParseAgain

SpecResults == InitResults /\ [][NextResults]_vars

\* get_statistics as a function of the output lines
InitStats ==
    /\ ScanIdle
    /\ test_modules = <<>>
    /\ platform = "linux" /\ fs = {}
    /\ BuildIdle
    /\ outputfile = NoStr /\ success = FALSE /\ messages = <<>>
    /\ output_lines \in Outputs
    /\ asserts = <<0, 0>> /\ cases = <<0, 0>>
    /\ pc = "stats" /\ error = "none"

NextStats == GetStatistics

SpecStats == InitStats /\ [][NextStats]_vars

\* -------------------------------------------------------------- properties
\* indices of the lines that parse_test_module_name stops at
ModuleLines(src) ==
    {i \in 1..Len(src) : Contains(Lower(src[i]), <<"m","o","d","u","l","e">>)}

\* the tokens of the first such line from the first occurrence of 'module',
\* in any letter case, on
ModuleLineTokens(src) ==
    LET l == src[SetMin(ModuleLines(src))]
    IN Split(SliceFrom(l, Find(Lower(l), <<"m","o","d","u","l","e">>)))

\* C1: when no line of the input contains 'module' in any letter case, the
\* scan reaches end-of-input and fails there: once readline() has returned
\* end-of-input the parse has raised and no module was added to the suite,
\* and end-of-input is never read a second time.
C1_NoModuleFailsAtEof ==
    (ModuleLines(source) = {} /\ eofReads >= 1) =>
        (pc = "raised" /\ eofReads = 1 /\ test_modules = <<>>)

\* C2: when the first line containing 'module' in any letter case has a
\* token after that occurrence, then once that line has been read
\* test_module_name is that token.
C2_ModuleNameAnyCase ==
    (/\ ModuleLines(source) # {}
     /\ f_pos >= SetMin(ModuleLines(source))
     /\ Len(ModuleLineTokens(source)) >= 2)
    => test_module_name = ModuleLineTokens(source)[2]

\* the accepted declarations after the module line, in source order
DeclarationsAfterModule(src) ==
    LET IsDecl(l) == /\ Contains(Lower(l), <<"s","u","b","r","o","u","t","i","n","e">>)
                     /\ subroutine_accepted(l)
                     /\ subroutine_has_name(l)
    IN SelectSeq(SubSeq(src, SetMin(ModuleLines(src)) + 1, Len(src)), IsDecl)

DeclaredOfType(src, type) ==
    LET HasType(l) == subroutine_type(subroutine_name(l)) = type
        decls == SelectSeq(DeclarationsAfterModule(src), HasType)
    IN [i \in 1..Len(decls) |-> subroutine_name(decls[i])]

\* C3: when the scan of a file has ended normally, the names of the test
\* cases are exactly the names of the accepted test_ declarations after the
\* module line, in source order, and the setup / teardown flags are set
\* exactly when an accepted declaration of that name occurs, whatever lines
\* lie between the declarations.
C3_EveryDeclarationCounts ==
    pc = "done" =>
        /\ [i \in 1..Len(subroutines) |-> subroutines[i].name]
              = DeclaredOfType(source, "test")
        /\ setup = (DeclaredOfType(source, "setup") # <<>>)
        /\ teardown = (DeclaredOfType(source, "teardown") # <<>>)

TotalCases(mods) ==
    Cardinality({<<i, j>> \in (1..Len(mods)) \X (1..(MaxCases + 1)) :
                    j <= Len(mods[i].subroutines)})

\* C4 as stated: for a suite with zero test cases across all its modules,
\* a build_run call returns false and writes, builds and runs nothing.
C4_NoCasesNoBuild ==
    (TotalCases(test_modules) = 0 /\ result # "none") =>
        (result = "False" /\ nwrite = 0 /\ nbuild = 0 /\ nrun = 0
         /\ written = NoStr)

\* C4 amended: for a suite with zero modules, a build_run call returns false
\* and writes, builds and runs nothing; for a suite with at least one module
\* (with or without test cases) the call writes the driver.
C4_NoModulesNoBuild ==
    result # "none" =>
        IF get_num_test_modules(test_modules) = 0
        THEN result = "False" /\ pc = "idle" /\ nwrite = 0 /\ nbuild = 0
             /\ nrun = 0 /\ written = NoStr
        ELSE nwrite = 1 /\ written # NoStr

C4_Witness ==
    get_num_test_modules(test_modules) = 0 /\ result = "False"

\* C5: within one build_run call build and run are each taken at most once;
\* run is taken only after that call's build and only when that call's
\* build command created the executable; a build command that creates
\* nothing makes the call return false without running, also when an
\* executable of an earlier build was there.
C5_RunOnlyAfterFreshBuild ==
    /\ nbuild <= 1 /\ nrun <= 1
    /\ (pc = "run" \/ nrun = 1) => (nbuild = 1 /\ exeBuilt)
    /\ (nbuild = 1 /\ ~exeBuilt) =>
          (pc = "idle" /\ result = "False" /\ nrun = 0 /\ exe \notin fs)

C5_Witness ==
    nbuild = 1 /\ stale /\ ~exeBuilt /\ result = "False" /\ nrun = 0

\* indices of the lines that get_statistics takes for the header
HeaderLines(lines) == {i \in 1..Len(lines) : is_asserts_header(lines[i])}

\* position of the last standalone '/' among the tokens of a line, 0 if none
LastSlash(items) ==
    IF \E k \in 1..Len(items) : items[k] = <<"/">>
    THEN SetMax({k \in 1..Len(items) : items[k] = <<"/">>}) ELSE 0

\* a line whose last '/' token stands between two integers
IsSummaryLine(line) ==
    LET items == Split(line)
        k == LastSlash(items)
    IN /\ 1 < k /\ k < Len(items)
       /\ IsDigits(items[k - 1]) /\ IsDigits(items[k + 1])

\* the integers immediately before and after the last '/' token
AroundLastSlash(line) ==
    LET items == Split(line)
        k == LastSlash(items)
    IN <<IntOf(items[k - 1]), IntOf(items[k + 1])>>

\* C6 as stated: the assertion counts are those of the first line that
\* contains the header and the case counts those of the line after it;
\* later header lines change nothing.
C6_FirstHeaderDecides ==
    (/\ pc = "stats_done" /\ error = "none"
     /\ HeaderLines(output_lines) # {}
     /\ SetMin(HeaderLines(output_lines)) < Len(output_lines)
     /\ IsSummaryLine(output_lines[SetMin(HeaderLines(output_lines))])
     /\ IsSummaryLine(output_lines[SetMin(HeaderLines(output_lines)) + 1]))
    => LET h == SetMin(HeaderLines(output_lines))
       IN /\ asserts = AroundLastSlash(output_lines[h])
          /\ cases = AroundLastSlash(output_lines[h + 1])

\* C6 amended: when get_statistics returns normally on lines that contain
\* the header, the assertion counts are those of the last line that contains
\* the header and the case counts those of the line after that one; each
\* pair is the integers immediately before and after the last standalone '/'
\* token of its line whenever a token follows that '/'.  Without a header
\* the counters keep their values.
C6_LastHeaderDecides ==
    (pc = "stats_done" /\ error = "none") =>
        IF HeaderLines(output_lines) = {}
        THEN asserts = <<0, 0>> /\ cases = <<0, 0>>
        ELSE LET h == SetMax(HeaderLines(output_lines))
             IN /\ h < Len(output_lines)
                /\ IsSummaryLine(output_lines[h]) =>
                      asserts = AroundLastSlash(output_lines[h])
                /\ IsSummaryLine(output_lines[h + 1]) =>
                      cases = AroundLastSlash(output_lines[h + 1])

C6_Witness ==
    /\ pc = "stats_done" /\ error = "none"
    /\ Cardinality(HeaderLines(output_lines)) >= 2
    /\ asserts = <<0, 1>> /\ cases = <<1, 1>>

\* C7: after any sequence of runs and parses, when the lines parsed last
\* contain no header line (also when the output file was absent), both
\* counters are zero, an absent or empty output gives success = false, and
\* the failure messages are those of the lines parsed last.
C7_NoHeaderZeroCounters ==
    (outputfile # NoStr /\ HeaderLines(output_lines) = {}) =>
        /\ asserts = <<0, 0>> /\ cases = <<0, 0>>
        /\ (output_lines = <<>> => ~success)
        /\ messages = get_messages(output_lines, get_success(output_lines))

\* the calls and per-file comments the driver is to hold for the modules
\* from index i on
RECURSIVE CallsOfModules(_, _)
CallsOfModules(mods, i) ==
    IF i > Len(mods) THEN <<>>
    ELSE (IF Len(mods) > 1
          THEN << <<" "," ","!"," ">> \o mods[i].test_filename \o <<":">> >> ELSE <<>>)
         \o [j \in 1..Len(mods[i].subroutines) |->
               <<" "," ","c","a","l","l"," ","r","u","n","_","t","e","s","t","_","c","a","s","e","(">> \o mods[i].subroutines[j].name
               \o <<",","\"">> \o mods[i].subroutines[j].description \o <<"\"",")">>]
         \o CallsOfModules(mods, i + 1)

C9_HandleClosedOnExit ==
    pc \in {"done", "raised"} => f_open = "closed"

\* C10: for an input with a module line, the scan ends at end-of-input:
\* once readline() has returned end-of-input the scan is over, every line
\* was read once and end-of-input was read once, also when a test_
\* declaration is followed by blank lines only or by nothing.
C10_ScanEndsAtEof ==
    (test_module_name # NoStr /\ eofReads >= 1) =>
        (pc = "done" /\ eofReads = 1 /\ f_pos = Len(source))

=============================================================================
